---------------------------- MODULE Spec2Model ----------------------------
(***************************************************************************)
(* A model of the AR destination pointer (src/app.js): the sensor          *)
(* callbacks (geolocation fixes, deviceorientation events), the heading    *)
(* filter inside handleOrientation, the geodesy functions and the marker   *)
(* projection of updateMarkerPosition, and the initApp promise chain.      *)
(*                                                                         *)
(* Numbers.  JavaScript numbers are IEEE doubles; the model holds them as  *)
(* fixed-point integers:                                                   *)
(*   - angles in degrees (latitudes and longitudes, alpha/beta/gamma, the  *)
(*     compass heading, bearings) in units of 1/Scale degree (six decimal  *)
(*     digits);                                                            *)
(*   - the radians and the sin/cos values of the marker placement in units *)
(*     of 1/Trig (eight decimal digits; a sine or cosine is within three   *)
(*     units of the double's);                                             *)
(*   - lengths (altitudes, distances) in decimetres;                       *)
(*   - marker coordinates in units of 1/Scene scene unit (four decimal     *)
(*     digits), rounded from radius * sin and radius * cos in 1/Trig.      *)
(* A product with a constant (x * 0.2, x * Math.PI / 180) is the exact     *)
(* rational result rounded to the nearest unit, half away from zero.       *)
(* Scale is 10^6, so the heading filter's factor 0.2 is exact on whole     *)
(* degree inputs for six successive samples.                               *)
(* The geodesy functions are calculated on numbers of FracLimbs limbs      *)
(* after the point (24 decimal digits), so that a fix one unit away from   *)
(* the target has the distance and the bearing the doubles give it; their  *)
(* results are rounded to decimetres and to 1/Scale degree.                *)
(***************************************************************************)
EXTENDS Integers, Sequences, FiniteSets, TLC

VARIABLES
    pc,                 \* position of the initApp promise chain / visible screen
    ios,                \* DeviceOrientationEvent.requestPermission exists
    listening,          \* deviceorientation listener registered
    watching,           \* watchPosition registered
    currentLocation,    \* NoLocation or [lat, lng, alt]
    deviceOrientation,  \* [alpha, beta, gamma], smoothed
    compassHeading,     \* smoothed heading
    destinationMarker,  \* NoMarker or the marker's position [x, y, z]
    proj,               \* locals of the last updateMarkerPosition call
    lastCall,           \* the callback that ran last and its argument
    nEvents,            \* sensor callbacks delivered so far (under SpecProject and
                        \* SpecSteady: since the state the run starts from)
    nSamples,           \* orientation samples that passed the null check so far
    held                \* NotHeld, or the sample a device held steady keeps reporting

vars == <<pc, ios, listening, watching, currentLocation, deviceOrientation,
          compassHeading, destinationMarker, proj, lastCall, nEvents, nSamples,
          held>>

-----------------------------------------------------------------------------
(* Fixed-point arithmetic *)

\* null and undefined where a number is expected: two integers outside the
\* range of every number the model uses
Null == 0 - 2000000000
Undefined == Null - 1

\* currentLocation = null
NoLocation == [lat |-> Null, lng |-> Null, alt |-> Null]

\* destinationMarker before initThreeJS() assigns it
NoMarker == [x |-> Undefined, y |-> Undefined, z |-> Undefined]

\* units per degree
Scale == 1000 * 1000
\* units per radian, and per 1.0 of a sine or cosine
Trig == 10000 * 10000
\* units per scene unit of a marker coordinate
Scene == 10000

Abs(a) == IF a < 0 THEN -a ELSE a
Sign(a) == IF a < 0 THEN -1 ELSE 1
Max(a, b) == IF a > b THEN a ELSE b
Min(a, b) == IF a < b THEN a ELSE b

\* The numeric helpers below are functions, not operators: a function is
\* applied to the value of its argument, so an argument is computed once.

\* a / b rounded to the nearest integer, half away from zero (b > 0)
RoundDiv[a \in Int, b \in Int] == Sign(a) * ((2 * Abs(a) + b) \div (2 * b))

\* whole degrees as a model angle
Deg(d) == d * Scale

\* a length of v / Trig scene units as a marker coordinate
ToScene[v \in Int] == RoundDiv[v, Trig \div Scene]

\* Math.PI, Math.PI / 2, 2 * Math.PI
PI == 314159265
HALFPI == RoundDiv[PI, 2]
TWOPI == 2 * PI

\* a * b / Trig rounded to the nearest, for |a|, |b| < 3 * Trig: the product
\* is summed from the halves of a and b, so that no term exceeds 2^31
Half == 10000

TrigMul[a \in Int, b \in Int] ==
    LET ah == Abs(a) \div Half
        al == Abs(a) % Half
        bh == Abs(b) \div Half
        bl == Abs(b) % Half
    IN  Sign(a) * Sign(b)
        * (ah * bh + RoundDiv[ah * bl + al * bh + RoundDiv[al * bl, Half], Half])

\* deg * Math.PI / 180 for -180 <= deg <= 180 degrees: deg units times
\* (Trig / Scale) * pi / 180 = 1.74532925
ToRad[deg \in Int] == TrigMul[deg, 174532925]

\* term - term * x2 / ((k+1)(k+2)) + ..., until a term rounds to zero
TrigSum[x2 \in Int, term \in Int, k \in Int] ==
    IF term = 0 THEN 0
    ELSE term + TrigSum[x2, -RoundDiv[TrigMul[term, x2], (k + 1) * (k + 2)], k + 2]

\* Taylor series on [0, pi/2]
SinSeries[x \in Int] == Min(Trig, TrigSum[TrigMul[x, x], x, 1])

CosSeries[x \in Int] == Max(0, TrigSum[TrigMul[x, x], Trig, 0])

\* Math.sin, Math.cos
SinReduced[r \in Int] ==
    IF r <= HALFPI THEN SinSeries[r]
    ELSE IF r <= PI THEN SinSeries[PI - r]
    ELSE IF r <= PI + HALFPI THEN -SinSeries[r - PI]
    ELSE -SinSeries[TWOPI - r]

Sin[x \in Int] == SinReduced[x % TWOPI]

CosReduced[r \in Int] ==
    IF r <= HALFPI THEN CosSeries[r]
    ELSE IF r <= PI THEN -CosSeries[PI - r]
    ELSE IF r <= PI + HALFPI THEN -CosSeries[r - PI]
    ELSE CosSeries[TWOPI - r]

Cos[x \in Int] == CosReduced[x % TWOPI]

\* the integer square root of n (floor), by Newton's iteration
SqrtIter[n \in Int, r \in Int] ==
    IF (r + n \div r) \div 2 >= r THEN r ELSE SqrtIter[n, (r + n \div r) \div 2]

Sqrt[n \in Int] == IF n <= 0 THEN 0 ELSE SqrtIter[n, n]

-----------------------------------------------------------------------------
(* Numbers of the geodesy functions: a sign and a magnitude, the magnitude  *)
(* a sequence of limbs (digits in base Limb, lowest first, no zero limb at  *)
(* the top), the lowest FracLimbs limbs after the point.                    *)

Limb == 10000
FracLimbs == 6

Limbs == Seq(Int)
Real == [neg : BOOLEAN, mag : Limbs]

LimbAt(m, i) == IF i <= Len(m) THEN m[i] ELSE 0
Zeros(n) == [i \in 1..n |-> 0]

\* m without its zero limbs at the top
Trim[m \in Limbs] ==
    IF m # <<>> /\ m[Len(m)] = 0 THEN Trim[SubSeq(m, 1, Len(m) - 1)] ELSE m

\* the limbs of s + c, each carried into 0 .. Limb - 1
Carry[s \in Limbs, c \in Int] ==
    IF s = <<>>
    THEN (IF c = 0 THEN <<>> ELSE <<c % Limb>> \o Carry[<<>>, c \div Limb])
    ELSE <<(s[1] + c) % Limb>> \o Carry[Tail(s), (s[1] + c) \div Limb]

AddMag[a \in Limbs, b \in Limbs] ==
    Trim[Carry[[i \in 1..Max(Len(a), Len(b)) |-> LimbAt(a, i) + LimbAt(b, i)], 0]]

\* a - b for a >= b
SubMag[a \in Limbs, b \in Limbs] ==
    Trim[Carry[[i \in 1..Len(a) |-> a[i] - LimbAt(b, i)], 0]]

CmpFrom[a \in Limbs, b \in Limbs, i \in Int] ==
    IF i = 0 THEN 0
    ELSE IF a[i] # b[i] THEN (IF a[i] < b[i] THEN -1 ELSE 1)
    ELSE CmpFrom[a, b, i - 1]

\* -1, 0 or 1 as a < b, a = b or a > b
CmpMag[a \in Limbs, b \in Limbs] ==
    IF Len(a) # Len(b) THEN (IF Len(a) < Len(b) THEN -1 ELSE 1)
    ELSE CmpFrom[a, b, Len(a)]

\* the sum of the limb products a[j] * b[k + 1 - j] for j >= i
Column[a \in Limbs, b \in Limbs, k \in Int, i \in Int] ==
    IF i > Len(a) \/ i > k THEN 0
    ELSE (IF k + 1 - i <= Len(b) THEN a[i] * b[k + 1 - i] ELSE 0)
         + Column[a, b, k, i + 1]

MulMag[a \in Limbs, b \in Limbs] ==
    IF a = <<>> \/ b = <<>> THEN <<>>
    ELSE Trim[Carry[[k \in 1..(Len(a) + Len(b) - 1) |-> Column[a, b, k, 1]], 0]]

\* the limbs i .. 1 of (r * Limb^i + m) \div k, for 0 <= r < k <= 200000
DivLimbs[m \in Limbs, k \in Int, i \in Int, r \in Int] ==
    IF i = 0 THEN <<>>
    ELSE DivLimbs[m, k, i - 1, (r * Limb + m[i]) % k] \o <<(r * Limb + m[i]) \div k>>

DivFloor[m \in Limbs, k \in Int] == Trim[DivLimbs[m, k, Len(m), 0]]

\* m / k rounded to the nearest, for 0 < k <= 200000
DivMag[m \in Limbs, k \in Int] == DivFloor[AddMag[m, <<k \div 2>>], k]

\* m / Limb^n rounded to the nearest, n > 0
DropLimbs[m \in Limbs, n \in Int] ==
    IF Len(m) < n THEN <<>>
    ELSE IF m[n] >= Limb \div 2 THEN AddMag[SubSeq(m, n + 1, Len(m)), <<1>>]
    ELSE SubSeq(m, n + 1, Len(m))

\* the integer of a magnitude below 2^31
IntOf[m \in Limbs] == IF m = <<>> THEN 0 ELSE m[1] + Limb * IntOf[Tail(m)]

Signed(neg, mag) == [neg |-> neg /\ mag # <<>>, mag |-> mag]
RealZero == Signed(FALSE, <<>>)
Negate(a) == Signed(~a.neg, a.mag)
Magnitude(a) == Signed(FALSE, a.mag)
SameSign(s, a) == Signed(s.neg, a.mag)

\* the number of an integer
RealOf[n \in Int] == Signed(n < 0, Trim[Carry[Zeros(FracLimbs) \o <<Abs(n)>>, 0]])

\* the integer nearest to a number, half away from zero
Round[a \in Real] == (IF a.neg THEN -1 ELSE 1) * IntOf[DropLimbs[a.mag, FracLimbs]]

\* a + b, a - b, a <= b, a * b, a / k for an integer 0 < k <= 200000
RealAdd[a \in Real, b \in Real] ==
    IF a.neg = b.neg THEN Signed(a.neg, AddMag[a.mag, b.mag])
    ELSE IF CmpMag[a.mag, b.mag] >= 0 THEN Signed(a.neg, SubMag[a.mag, b.mag])
    ELSE Signed(b.neg, SubMag[b.mag, a.mag])

RealSub[a \in Real, b \in Real] == RealAdd[a, Negate(b)]

RealLeq(a, b) == ~RealSub[b, a].neg

RealMul[a \in Real, b \in Real] ==
    Signed(a.neg # b.neg, DropLimbs[MulMag[a.mag, b.mag], FracLimbs])

RealDivInt[a \in Real, k \in Int] == Signed(a.neg, DivMag[a.mag, k])

\* 1 / d for d > 0, by Newton's iteration r <- r * (2 - d * r) from a first
\* value between 1 / (2 * d) and 1 / d taken from the top limb of d
InverseIter[d \in Real, r \in Real, n \in Int] ==
    IF n = 0 THEN r
    ELSE InverseIter[d, RealMul[r, RealSub[RealOf[2], RealMul[d, r]]], n - 1]

Inverse[d \in Real] ==
    InverseIter[d,
                Signed(FALSE, Zeros(2 * FracLimbs - Len(d.mag))
                              \o <<Limb \div (d.mag[Len(d.mag)] + 1)>>),
                8]

\* a / b for b # 0
RealDiv[a \in Real, b \in Real] ==
    Signed(a.neg # b.neg, RealMul[Magnitude(a), Inverse[Magnitude(b)]].mag)

\* the magnitude of 100^n
Pow100(n) == Zeros(n \div 2) \o <<IF n % 2 = 0 THEN 1 ELSE 100>>

\* 1 / sqrt(a) for a > 0, by Newton's iteration y <- y * (3 - a * y * y) / 2
\* from a first value between half of it and it taken from the top limb of a
RSqrtIter[a \in Real, y \in Real, n \in Int] ==
    IF n = 0 THEN y
    ELSE RSqrtIter[a,
                   RealDivInt[RealMul[y, RealSub[RealOf[3],
                                                 RealMul[a, RealMul[y, y]]]], 2],
                   n - 1]

\* Math.sqrt(a) for a >= 0
RealSqrt[a \in Real] ==
    IF a.mag = <<>> THEN RealZero
    ELSE RealMul[a, RSqrtIter[a,
                   Signed(FALSE, DivMag[Pow100(3 * FracLimbs + 1 - Len(a.mag)),
                                        Sqrt[a.mag[Len(a.mag)]] + 1]),
                   10]]

\* pi = 3.1415 9265 3589 7932 3846 2643, for Math.sin, Math.cos and Math.atan2
RealPI == Signed(FALSE, <<2643, 3846, 7932, 3589, 9265, 1415, 3>>)
RealHalfPI == RealDivInt[RealPI, 2]

\* Math.PI, the double nearest to pi = 3.1415 9265 3589 7931 1599 7963: the
\* sine of Math.PI is not zero
MathPI == Signed(FALSE, <<7963, 1599, 7931, 3589, 9265, 1415, 3>>)

\* term - term * x2 / ((k+1)(k+2)) + ..., until a term rounds to zero
TaylorSum[x2 \in Real, term \in Real, k \in Int] ==
    IF term = RealZero THEN RealZero
    ELSE RealAdd[term,
                 TaylorSum[x2,
                           Negate(RealDivInt[RealMul[term, x2], (k + 1) * (k + 2)]),
                           k + 2]]

\* Taylor series on [0, pi/2]
RealSinSeries[x \in Real] == TaylorSum[RealMul[x, x], x, 1]
RealCosSeries[x \in Real] == TaylorSum[RealMul[x, x], RealOf[1], 0]

\* Math.sin, Math.cos
RealSin[x \in Real] ==
    IF x.neg THEN Negate(RealSin[Negate(x)])
    ELSE IF RealLeq(x, RealHalfPI) THEN RealSinSeries[x]
    ELSE IF RealLeq(x, RealPI) THEN RealSinSeries[RealSub[RealPI, x]]
    ELSE Negate(RealSin[RealSub[x, RealPI]])

RealCos[x \in Real] ==
    IF x.neg THEN RealCos[Negate(x)]
    ELSE IF RealLeq(x, RealHalfPI) THEN RealCosSeries[x]
    ELSE IF RealLeq(x, RealPI) THEN Negate(RealCosSeries[RealSub[RealPI, x]])
    ELSE Negate(RealCos[RealSub[x, RealPI]])

\* p / k - p * z2 / (k+2) + ..., until a power rounds to zero
AtanSum[z2 \in Real, p \in Real, k \in Int] ==
    IF p = RealZero THEN RealZero
    ELSE RealAdd[RealDivInt[p, k], AtanSum[z2, Negate(RealMul[p, z2]), k + 2]]

\* the arctangent of z for |z| <= 0.4142
RealAtanSeries[z \in Real] == AtanSum[RealMul[z, z], z, 1]

\* the arctangent of t for 0 <= t <= 1
RealAtan01[t \in Real] ==
    IF RealLeq(t, Signed(FALSE, Zeros(FracLimbs - 1) \o <<4142>>))
    THEN RealAtanSeries[t]
    ELSE RealAdd[RealDivInt[RealPI, 4],
                 RealAtanSeries[RealDiv[RealSub[t, RealOf[1]],
                                        RealAdd[t, RealOf[1]]]]]

\* the arctangent of ay / ax for ay, ax > 0
RealAtanQuadrant[ay \in Real, ax \in Real] ==
    IF RealLeq(ay, ax) THEN RealAtan01[RealDiv[ay, ax]]
    ELSE RealSub[RealHalfPI, RealAtan01[RealDiv[ax, ay]]]

\* Math.atan2(y, x), with atan2(0, 0) = 0 and atan2(0, x < 0) = pi
RealAtan2[y \in Real, x \in Real] ==
    IF y = RealZero THEN (IF x.neg THEN RealPI ELSE RealZero)
    ELSE IF x = RealZero THEN SameSign(y, RealHalfPI)
    ELSE IF ~x.neg THEN SameSign(y, RealAtanQuadrant[Magnitude(y), x])
    ELSE SameSign(y, RealSub[RealPI,
                             RealAtanQuadrant[Magnitude(y), Magnitude(x)]])

-----------------------------------------------------------------------------
(* Program constants *)

\* const TARGET: 69.705561, 18.832721 degrees, 488.8 m
TARGET == [lat |-> 69705561, lng |-> 18832721, alt |-> 4888]

\* const R = 6371e3 metres, in decimetres
EarthR == 63710000

\* const radius = 3
Radius == 3

\* const maxElevation = Math.PI / 6
MaxElevation == RoundDiv[PI, 6]

\* x * smoothingFactor for smoothingFactor = 0.2 (handleOrientation)
TimesSmoothing[x \in Int] == RoundDiv[x, 5]

\* x * smoothingFactor for smoothingFactor = 0.1 (updateMarkerPosition)
TimesMarkerSmoothing[x \in Int] == RoundDiv[x, 10]

\* JavaScript's a % m for m > 0: the result has the sign of a
JsMod(a, m) == IF a >= 0 THEN a % m ELSE -((-a) % m)

\* ToNumber in an arithmetic expression: null is 0
Num(v) == IF v = Null THEN 0 ELSE v

\* position.coords.altitude || 0
AltitudeOrZero(a) == IF a = Null THEN 0 ELSE a

-----------------------------------------------------------------------------
(* Geodesy *)

\* coordinate * Math.PI / 180 (a latitude, a longitude or a difference)
CoordToRad[coord \in Int] ==
    RealDivInt[RealDivInt[RealMul[RealOf[coord], MathPI], 180 * 1000], Scale \div 1000]

\* rad * 180 / Math.PI, in units of 1/Scale degree
RealToDeg[rad \in Real] == Round[RealDiv[RealMul[rad, RealOf[180 * Scale]], MathPI]]

\* a = sin(dphi/2)^2 + cos(phi1) cos(phi2) sin(dlambda/2)^2, given the two
\* sines and the two cosines
Haversine[s1 \in Real, s2 \in Real, c1 \in Real, c2 \in Real] ==
    RealAdd[RealMul[s1, s1], RealMul[RealMul[RealMul[c1, c2], s2], s2]]

\* c = 2 * Math.atan2(Math.sqrt(a), Math.sqrt(1 - a))
Arc[a \in Real] ==
    RealMul[RealOf[2], RealAtan2[RealSqrt[a], RealSqrt[RealSub[RealOf[1], a]]]]

\* R * c, in decimetres
RealDistance(lat1, lon1, lat2, lon2) ==
    RealMul[RealOf[EarthR],
            Arc[Haversine[RealSin[RealDivInt[CoordToRad[lat2 - lat1], 2]],
                          RealSin[RealDivInt[CoordToRad[lon2 - lon1], 2]],
                          RealCos[CoordToRad[lat1]],
                          RealCos[CoordToRad[lat2]]]]]

\* the distance to the nearest decimetre
calculateDistance(lat1, lon1, lat2, lon2) ==
    Round[RealDistance(lat1, lon1, lat2, lon2)]

\* y = sin(dlambda) cos(phi2)
BearingY[phi2 \in Real, dlambda \in Real] ==
    RealMul[RealSin[dlambda], RealCos[phi2]]

\* x = cos(phi1) sin(phi2) - sin(phi1) cos(phi2) cos(dlambda)
BearingX[phi1 \in Real, phi2 \in Real, dlambda \in Real] ==
    RealSub[RealMul[RealCos[phi1], RealSin[phi2]],
            RealMul[RealMul[RealSin[phi1], RealCos[phi2]], RealCos[dlambda]]]

\* (theta * 180 / Math.PI + 360) % 360
calculateBearing(lat1, lon1, lat2, lon2) ==
    JsMod(RealToDeg[RealAtan2[BearingY[CoordToRad[lat2], CoordToRad[lon2 - lon1]],
                              BearingX[CoordToRad[lat1], CoordToRad[lat2],
                                       CoordToRad[lon2 - lon1]]]]
          + Deg(360), Deg(360))

\* whole degrees as a coordinate

\* a position: coords.latitude and coords.longitude as offsets from the
\* target's, coords.altitude
At(dlat, dlng, altitude) ==
    [latitude |-> TARGET.lat + dlat, longitude |-> TARGET.lng + dlng,
     altitude |-> altitude]

\* fixes: on the target (no altitude, and 10 km up), 10 degrees south and
\* north on the target's meridian, 30 degrees west, 1.4 km south
Positions ==
    { At(0, 0, Null), At(0, 0, 100000),
      At(-Deg(10), 0, Null), At(Deg(10), 0, 0),
      At(0, -Deg(30), 1000), At(-12800, 0, Null) }

\* currentLocation = {lat, lng, alt: position.coords.altitude || 0}
StoredLocation(position) ==
    [lat |-> position.latitude,
     lng |-> position.longitude,
     alt |-> AltitudeOrZero(position.altitude)]

\* Math.atan2(altitudeDiff, distance), of the distance as calculated (not
\* rounded), in units of 1/Trig
ElevationAngle[altitudeDiff \in Int, distance \in Real] ==
    Round[RealMul[RealAtan2[RealOf[altitudeDiff], distance], RealOf[Trig]]]

\* the bearing, the distance and the elevation angle of the target from a
\* stored location
Geodesy(loc) ==
    [bearing  |-> calculateBearing(loc.lat, loc.lng, TARGET.lat, TARGET.lng),
     distance |-> calculateDistance(loc.lat, loc.lng, TARGET.lat, TARGET.lng),
     elevationAngle |->
         ElevationAngle[TARGET.alt - loc.alt,
                        RealDistance(loc.lat, loc.lng, TARGET.lat, TARGET.lng)]]

\* Geodesy of the locations the fixes of Positions store, calculated once
GeodesyOfPositions ==
    [loc \in { StoredLocation(position) : position \in Positions } |-> Geodesy(loc)]

-----------------------------------------------------------------------------
(* Heading filter: handleOrientation *)

\* a null check that looks at alpha only
IsNullSampleAlphaOnly(e) == e.alpha = Null

\* if (event.alpha === null || event.beta === null || event.gamma === null) return
IsNullSample(e) == e.alpha = Null \/ e.beta = Null \/ e.gamma = Null

\* if (event.webkitCompassHeading): undefined, null and 0 are falsy
Truthy(v) == v # Undefined /\ v # Null /\ v # 0

\* current + (sample - current) * smoothingFactor
SmoothAngle(current, sample) == current + TimesSmoothing[Num(sample) - current]

\* newCompassHeading: the native heading, else 360 - deviceOrientation.alpha
\* (the smoothed alpha), else left undefined
NewCompassHeading(e, alpha) ==
    IF Truthy(e.webkitCompassHeading) THEN e.webkitCompassHeading
    ELSE IF e.alpha # Null THEN Deg(360) - alpha
    ELSE Undefined

\* diff = new - current; if (diff > 180) diff -= 360; if (diff < -180) diff += 360
ShortestDiff(new, current) ==
    LET d0 == new - current
        d1 == IF d0 > Deg(180) THEN d0 - Deg(360) ELSE d0
    IN  IF d1 < -Deg(180) THEN d1 + Deg(360) ELSE d1

\* the smoothing step without the wrap into [0, 360)
SmoothHeadingNoWrap(current, new) ==
    current + TimesSmoothing[ShortestDiff(new, current)]

\* (compassHeading + diff * smoothingFactor + 360) % 360
SmoothHeading(current, new) ==
    JsMod(current + TimesSmoothing[ShortestDiff(new, current)] + Deg(360), Deg(360))

-----------------------------------------------------------------------------
(* Bearing projector: updateMarkerPosition *)

\* while (relativeBearing > 180) relativeBearing -= 360
RECURSIVE WhileAbove(_)
WhileAbove(r) == IF r > Deg(180) THEN WhileAbove(r - Deg(360)) ELSE r

\* while (relativeBearing < -180) relativeBearing += 360
RECURSIVE WhileBelow(_)
WhileBelow(r) == IF r < -Deg(180) THEN WhileBelow(r + Deg(360)) ELSE r

\* relativeBearing = bearing - compassHeading, normalised by the two loops
RelativeBearing(bearing, heading) == WhileBelow(WhileAbove(bearing - heading))

\* a clamp that bounds the elevation from above only
ClampElevationUpperOnly(elevationAngle) == Min(MaxElevation, elevationAngle)

\* Math.max(-maxElevation, Math.min(maxElevation, elevationAngle))
ClampElevation(elevationAngle) ==
    Max(-MaxElevation, Min(MaxElevation, elevationAngle))

\* if (!currentLocation || !destinationMarker) return
CanProject(loc, marker) == loc # NoLocation /\ marker # NoMarker

\* the locals of updateMarkerPosition after the bearing, the distance and
\* the elevation angle, up to the raw placement (x, y, z)
Placement[bearing \in Int, distance \in Int, elev \in Int, heading \in Int] ==
    LET relative == RelativeBearing(bearing, heading)
    IN  [bearing          |-> bearing,
         relativeBearing  |-> relative,
         distance         |-> distance,
         elevationAngle   |-> elev,
         clampedElevation |-> ClampElevation(elev),
         x |-> ToScene[Radius * Sin[ToRad[relative]]],
         y |-> ToScene[Radius * Sin[ClampElevation(elev)]],
         z |-> ToScene[-Radius * Cos[ToRad[relative]]]]

\* the bearing, the distance and the elevation angle are functions of the
\* location alone: they are looked up where they have been calculated already
Projection(loc, heading) ==
    CHOOSE p \in { Placement[g.bearing, g.distance, g.elevationAngle, heading] :
                   g \in { IF loc \in DOMAIN GeodesyOfPositions
                           THEN GeodesyOfPositions[loc] ELSE Geodesy(loc) } } : TRUE

\* current + (raw - current) * smoothingFactor, per axis
SmoothAxis(current, raw) == current + TimesMarkerSmoothing[raw - current]

\* destinationMarker.position.set(targetX, targetY, targetZ), and the locals
Placed(marker, pr, p) ==
    [marker |-> [x |-> SmoothAxis(marker.x, p.x),
                 y |-> SmoothAxis(marker.y, p.y),
                 z |-> SmoothAxis(marker.z, p.z)],
     proj   |-> [n                |-> pr.n + 1,
                 bearing          |-> p.bearing,
                 relativeBearing  |-> p.relativeBearing,
                 distance         |-> p.distance,
                 elevationAngle   |-> p.elevationAngle,
                 clampedElevation |-> p.clampedElevation]]

\* a projector that guards on the location only and places a marker that has
\* not been created yet as if it were at the origin
updateMarkerPositionLocationOnly(loc, marker, heading, pr) ==
    IF loc = NoLocation THEN [marker |-> marker, proj |-> pr]
    ELSE CHOOSE r \in { Placed(IF marker = NoMarker
                                THEN [x |-> 0, y |-> 0, z |-> 0] ELSE marker,
                               pr, p) : p \in {Projection(loc, heading)} } : TRUE

\* updateMarkerPosition(): the marker position and the locals it leaves
\* (the projection is computed once and bound to p)
updateMarkerPosition(loc, marker, heading, pr) ==
    IF ~CanProject(loc, marker) THEN [marker |-> marker, proj |-> pr]
    ELSE CHOOSE r \in { Placed(marker, pr, p) : p \in {Projection(loc, heading)} } : TRUE

\* an error callback that forgets the last fix
LocationClearedOnError(loc) == NoLocation

\* what the location error callbacks leave in currentLocation
LocationAfterError(loc) == loc

-----------------------------------------------------------------------------
(* Inputs *)

\* sensor callbacks delivered in one run
MaxEvents == 3

Sample(alpha, beta, gamma, heading) ==
    [alpha |-> alpha, beta |-> beta, gamma |-> gamma,
     webkitCompassHeading |-> heading]

\* samples without a native heading: the heading comes from alpha
YawSamples ==
    { Sample(Deg(a), Deg(45), -Deg(10), Undefined) : a \in {0, 1, 180, 359, 360} }

\* samples with webkitCompassHeading (0 is falsy and falls back to alpha)
CompassSamples ==
    { Sample(Deg(90), Deg(45), -Deg(10), Deg(h)) : h \in {0, 2, 90, 359, 360} }

\* samples with a null angle
NullSamples ==
    { Sample(Null, Deg(45), -Deg(10), Deg(90)),
      Sample(Deg(359), Null, -Deg(10), Undefined),
      Sample(Deg(1), Deg(45), Null, Deg(359)) }

Samples == YawSamples \cup CompassSamples \cup NullSamples

\* the device is not held steady: no sample repeats
NotHeld == Sample(Null, Null, Null, Undefined)

-----------------------------------------------------------------------------
(* State machine *)

Origin == [x |-> 0, y |-> 0, z |-> 0]

NoProjection ==
    [n |-> 0, bearing |-> 0, relativeBearing |-> 0, distance |-> 0,
     elevationAngle |-> 0, clampedElevation |-> 0]

Init ==
    /\ pc = "permission"
    /\ ios \in BOOLEAN
    /\ listening = FALSE
    /\ watching = FALSE
    /\ currentLocation = NoLocation
    /\ deviceOrientation = [alpha |-> 0, beta |-> 0, gamma |-> 0]
    /\ compassHeading = 0
    /\ destinationMarker = NoMarker
    /\ proj = NoProjection
    /\ lastCall = [fn |-> "none"]
    /\ nEvents = 0
    /\ nSamples = 0
    /\ held = NotHeld

\* startButton / retryButton click: initApp() calls requestLocationAccess()
ClickStart ==
    /\ pc \in {"permission", "error"}
    /\ pc' = "location"
    /\ UNCHANGED <<ios, listening, watching, currentLocation, deviceOrientation,
                   compassHeading, destinationMarker, proj, lastCall, nEvents,
                   nSamples, held>>

\* a successful fix: store it, then updateDistanceAndDirection()
StoreFix(fn, position) ==
    \E loc \in {StoredLocation(position)} :
    \E u \in {updateMarkerPosition(loc, destinationMarker, compassHeading, proj)} :
        /\ currentLocation' = loc
        /\ destinationMarker' = u.marker
        /\ proj' = u.proj
        /\ lastCall' = [fn |-> fn, arg |-> position]
        /\ nEvents' = nEvents + 1
        /\ UNCHANGED <<deviceOrientation, compassHeading, nSamples, held>>

\* getCurrentPosition success callback; resolve() continues with requestCameraAccess()
LocationFix(position) ==
    /\ pc = "location"
    /\ nEvents < MaxEvents
    /\ StoreFix("getCurrentPosition", position)
    /\ pc' = "camera"
    /\ UNCHANGED <<ios, listening, watching>>

\* getCurrentPosition error callback (or no navigator.geolocation): reject
LocationError ==
    /\ pc = "location"
    /\ pc' = "error"
    /\ currentLocation' = LocationAfterError(currentLocation)
    /\ lastCall' = [fn |-> "locationError"]
    /\ UNCHANGED <<ios, listening, watching, deviceOrientation, compassHeading,
                   destinationMarker, proj, nEvents, nSamples, held>>

\* camera stream playing; requestMotionAccess() runs: without requestPermission
\* the listeners are registered at once and a 500 ms timer is started
CameraGranted ==
    /\ pc = "camera"
    /\ pc' = "motion"
    /\ listening' = (listening \/ ~ios)
    /\ UNCHANGED <<ios, watching, currentLocation, deviceOrientation,
                   compassHeading, destinationMarker, proj, lastCall, nEvents,
                   nSamples, held>>

CameraDenied ==
    /\ pc = "camera"
    /\ pc' = "error"
    /\ UNCHANGED <<ios, listening, watching, currentLocation, deviceOrientation,
                   compassHeading, destinationMarker, proj, lastCall, nEvents,
                   nSamples, held>>

\* permission granted / timer fired: resolve(), then initThreeJS() creates the
\* marker at the origin and startLocationTracking() registers the watcher
MotionGranted ==
    /\ pc = "motion"
    /\ pc' = "running"
    /\ listening' = TRUE
    /\ destinationMarker' = Origin
    /\ watching' = TRUE
    /\ UNCHANGED <<ios, currentLocation, deviceOrientation, compassHeading, proj,
                   lastCall, nEvents, nSamples, held>>

\* DeviceOrientationEvent.requestPermission() not granted
MotionDenied ==
    /\ pc = "motion"
    /\ ios
    /\ pc' = "error"
    /\ UNCHANGED <<ios, listening, watching, currentLocation, deviceOrientation,
                   compassHeading, destinationMarker, proj, lastCall, nEvents,
                   nSamples, held>>

\* initThreeJS() throws: creating the renderer, before the marker exists, or
\* after it has created the marker (created), in createMarkerLabel() or in
\* the first animate(); startLocationTracking() is not reached
InitThreeJSThrows(created) ==
    /\ pc = "motion"
    /\ pc' = "error"
    /\ listening' = TRUE
    /\ destinationMarker' = IF created THEN Origin ELSE destinationMarker
    /\ UNCHANGED <<ios, watching, currentLocation, deviceOrientation,
                   compassHeading, proj, lastCall, nEvents, nSamples, held>>

\* watchPosition success callback
WatchFix(position) ==
    /\ watching
    /\ nEvents < MaxEvents
    /\ StoreFix("watchPosition", position)
    /\ UNCHANGED <<pc, ios, listening, watching>>

\* watchPosition error callback: console.error only
WatchError ==
    /\ watching
    /\ nEvents < MaxEvents
    /\ currentLocation' = LocationAfterError(currentLocation)
    /\ lastCall' = [fn |-> "watchError"]
    /\ nEvents' = nEvents + 1
    /\ UNCHANGED <<pc, ios, listening, watching, deviceOrientation,
                   compassHeading, destinationMarker, proj, nSamples, held>>

\* the smoothed angles, the heading and the marker after a sample with no null
Ingested(e, orientation, heading0, loc, marker, pr) ==
    LET smoothed == [alpha |-> SmoothAngle(orientation.alpha, e.alpha),
                     beta  |-> SmoothAngle(orientation.beta, e.beta),
                     gamma |-> SmoothAngle(orientation.gamma, e.gamma)]
        new      == NewCompassHeading(e, smoothed.alpha)
        heading  == IF new # Undefined THEN SmoothHeading(heading0, new) ELSE heading0
    IN  [orientation |-> smoothed,
         heading     |-> heading,
         update      |-> updateMarkerPosition(loc, marker, heading, pr)]

\* handleOrientation(event)
Ingest(e) ==
    /\ lastCall' = [fn |-> "handleOrientation", arg |-> e]
    /\ nEvents' = nEvents + 1
    /\ IF IsNullSample(e)
       THEN UNCHANGED <<deviceOrientation, compassHeading, destinationMarker,
                        proj, nSamples>>
       ELSE \E r \in {Ingested(e, deviceOrientation, compassHeading,
                               currentLocation, destinationMarker, proj)} :
                /\ deviceOrientation' = r.orientation
                /\ compassHeading' = r.heading
                /\ destinationMarker' = r.update.marker
                /\ proj' = r.update.proj
                /\ nSamples' = nSamples + 1
    /\ UNCHANGED <<pc, ios, listening, watching, currentLocation, held>>

HandleOrientation(e) ==
    /\ listening
    /\ nEvents < MaxEvents
    /\ Ingest(e)

Next ==
    \/ ClickStart
    \/ \E position \in Positions : LocationFix(position)
    \/ LocationError
    \/ CameraGranted
    \/ CameraDenied
    \/ MotionGranted
    \/ MotionDenied
    \/ \E created \in BOOLEAN : InitThreeJSThrows(created)
    \/ \E position \in Positions : WatchFix(position)
    \/ WatchError
    \/ \E e \in Samples : HandleOrientation(e)

Spec == Init /\ [][Next]_vars


-----------------------------------------------------------------------------
(* The projector under any heading.  A run starts from a tracking state:    *)
(* the chain has finished, the marker has just been created, a fix is       *)
(* stored, and the samples delivered since the listeners were registered    *)
(* (webkitCompassHeading present, alpha = beta = gamma = 0) have brought    *)
(* the heading to any value.  Fixes then arrive from watchPosition.         *)

Headings == { Deg(h) : h \in {0, 45, 90, 135, 180, 225, 270, 315} }

InitTracking ==
    /\ pc = "running"
    /\ ios = FALSE
    /\ listening = TRUE
    /\ watching = TRUE
    /\ currentLocation \in { StoredLocation(position) : position \in Positions }
    /\ deviceOrientation = [alpha |-> 0, beta |-> 0, gamma |-> 0]
    /\ compassHeading \in Headings
    /\ destinationMarker = Origin
    /\ proj = NoProjection
    /\ lastCall = [fn |-> "none"]
    /\ nEvents = 0
    /\ nSamples = 1

InitProject == InitTracking /\ held = NotHeld

NextProject ==
    \/ \E position \in Positions : WatchFix(position)
    \/ WatchError

SpecProject == InitProject /\ [][NextProject]_vars

-----------------------------------------------------------------------------
(* A device held steady: every deviceorientation event carries the same     *)
(* sample.  The run starts from a tracking state and the browser keeps      *)
(* delivering events (weak fairness), MaxSteady of them.                    *)

\* events delivered to a device held steady
MaxSteady == 100

HeldSamples ==
    { Sample(Deg(a), 0, 0, Undefined) : a \in {10, 180, 350} }
    \cup { Sample(0, 0, 0, Deg(h)) : h \in {10, 180, 350} }

InitSteady == InitTracking /\ held \in HeldSamples

SteadySample ==
    /\ listening
    /\ held # NotHeld
    /\ nEvents < MaxSteady
    /\ Ingest(held)

NextSteady == SteadySample

SpecSteady == InitSteady /\ [][NextSteady]_vars /\ WF_vars(SteadySample)


-----------------------------------------------------------------------------
(* Properties *)

\* the distance between two headings around the circle
CircDist(a, b) == Min((a - b) % Deg(360), (b - a) % Deg(360))

\* the raw heading of a sample: the native heading when present and
\* non-zero, otherwise (360 - yaw) mod 360
RawHeading(e) ==
    IF Truthy(e.webkitCompassHeading) THEN e.webkitCompassHeading % Deg(360)
    ELSE (Deg(360) - e.alpha) % Deg(360)

\* a sample with a null required angle
HasNullAngle(e) == e.alpha = Null \/ e.beta = Null \/ e.gamma = Null

\* this step is handleOrientation ingesting a sample that passed the null check
ValidSampleStep == nSamples' = nSamples + 1

\* this step is handleOrientation called with a sample that has a null angle
NullSampleStep ==
    /\ nEvents' = nEvents + 1
    /\ lastCall'.fn = "handleOrientation"
    /\ HasNullAngle(lastCall'.arg)

\* this step is a successful fix
FixStep ==
    /\ nEvents' = nEvents + 1
    /\ lastCall'.fn \in {"getCurrentPosition", "watchPosition"}

\* this step is a location error callback
ErrorStep ==
    \/ nEvents' = nEvents + 1 /\ lastCall'.fn = "watchError"
    \/ pc = "location" /\ pc' = "error"

\* C1: the smoothed heading lies in [0, 360) in every reachable state, before
\* any sample and after any sequence of samples in [0, 360] and fixes.
C1_HeadingInRange == 0 <= compassHeading /\ compassHeading < Deg(360)

\* C1 witness: after samples and a fix, the heading has wrapped below 360.
C1_Witness ==
    /\ nSamples >= 2
    /\ currentLocation # NoLocation
    /\ compassHeading > Deg(350)

\* C2 (as claimed): every valid sample moves the heading toward the sample's
\* raw heading along the shorter arc: the circular distance between the
\* heading and the sample's raw heading never increases.
C2_ShortArcTowardSample ==
    [][ValidSampleStep =>
          CircDist(compassHeading', RawHeading(lastCall'.arg))
              <= CircDist(compassHeading, RawHeading(lastCall'.arg))]_vars

\* C3 (as claimed): after the first valid sample the heading equals that
\* sample's candidate heading exactly (the sample's raw heading, or the
\* candidate the handler computed from the smoothed alpha).
C3_SeededByFirstSample ==
    [][(nSamples = 0 /\ ValidSampleStep) =>
          \/ compassHeading' = RawHeading(lastCall'.arg)
          \/ compassHeading' =
                 NewCompassHeading(lastCall'.arg, deviceOrientation'.alpha) % Deg(360)]_vars

\* C4 (as claimed): while the observer position is unknown or no valid sample
\* has initialised the heading, no projection is made and the marker keeps
\* its position; a fix arriving before any sample does not move the marker.
C4_NoProjectionBeforeHeading ==
    [][(currentLocation' = NoLocation \/ nSamples' = 0) =>
          /\ proj' = proj
          /\ (destinationMarker # NoMarker => destinationMarker' = destinationMarker)]_vars

\* C5 (as claimed): the relative bearing of every projection is in (-180, 180];
\* -180 is never produced.
C5_RelativeBearingHalfOpen ==
    proj.n > 0 =>
        (-Deg(180) < proj.relativeBearing /\ proj.relativeBearing <= Deg(180))

\* C6: a sample with a null alpha, beta or gamma is a no-op: the heading, the
\* smoothed angles, the observer position and the marker are unchanged and no
\* projection is made.
C6_NullSampleIsNoOp ==
    [][NullSampleStep =>
          UNCHANGED <<compassHeading, deviceOrientation, currentLocation,
                      destinationMarker, proj>>]_vars

\* C6 witness: a null sample was delivered while the projector was active
\* (a fix stored, the marker created, a valid sample already projected).
C6_Witness ==
    /\ lastCall.fn = "handleOrientation"
    /\ HasNullAngle(lastCall.arg)
    /\ nSamples > 0
    /\ proj.n > 0

\* C7 (as claimed): a fix at the target's coordinates, after a projection from
\* a non-degenerate position (with the heading already fed by a sample),
\* retains that projection's relative bearing.
C7_DegenerateFixKeepsBearing ==
    [][(/\ FixStep
        /\ currentLocation'.lat = TARGET.lat
        /\ currentLocation'.lng = TARGET.lng
        /\ nSamples > 0
        /\ proj.n > 0
        /\ proj.distance > 0) =>
          proj'.relativeBearing = proj.relativeBearing]_vars

\* C8: once stored, the observer position is never cleared, and a location
\* error callback leaves it equal to the last successful fix.
C8_LocationNeverCleared ==
    [][/\ currentLocation # NoLocation => currentLocation' # NoLocation
       /\ ErrorStep => currentLocation' = currentLocation]_vars

\* C8 witness: the watchPosition error callback ran after a fix was stored.
C8_Witness == lastCall.fn = "watchError" /\ currentLocation # NoLocation

\* C9: the clamped elevation of every projection is in [-maxElevation,
\* maxElevation], equals +maxElevation or -maxElevation when the raw atan2 is
\* outside, and the marker's height stays within radius * sin(maxElevation).
C9_ElevationClamped ==
    /\ proj.n > 0 =>
          /\ -MaxElevation <= proj.clampedElevation
          /\ proj.clampedElevation <= MaxElevation
          /\ proj.elevationAngle > MaxElevation => proj.clampedElevation = MaxElevation
          /\ proj.elevationAngle < -MaxElevation => proj.clampedElevation = -MaxElevation
    /\ destinationMarker # NoMarker =>
          Abs(destinationMarker.y) <= ToScene[Radius * Sin[MaxElevation]]

\* C9 witness: a projection whose raw elevation is below -maxElevation.
C9_Witness == proj.n > 0 /\ proj.elevationAngle < -MaxElevation

\* the heading is within this many units of the held sample's raw heading
HeadingEpsilon == 5

\* C10 (as claimed): with the same sample ingested repeatedly, the distance
\* between the heading and the sample's raw heading never increases, and it
\* eventually stays within a small epsilon.
C10_SteadyConvergence ==
    /\ [][ValidSampleStep =>
            CircDist(compassHeading', RawHeading(held))
                <= CircDist(compassHeading, RawHeading(held))]_vars
    /\ <>[](CircDist(compassHeading, RawHeading(held)) <= HeadingEpsilon)


\* a step of a sensor callback (a position fix, a position error or an
\* orientation event), as opposed to a step of the initApp chain
CallbackStep == nEvents' = nEvents + 1

\* the guard of updateMarkerPosition as the callback meets it: the location
\* the callback has just stored, the marker object as it was
ReadyToProject == currentLocation' # NoLocation /\ destinationMarker # NoMarker

\* C11: in every interleaving of the fix, error and orientation callbacks with
\* the steps of the initApp chain (retries included), a callback runs the
\* projection and writes the marker position only when a location is stored
\* and the marker object exists; a callback arriving earlier may change the
\* heading or the stored location but leaves the marker and the projection
\* locals untouched; once both exist every fix and every valid sample
\* projects; and a chain step changes the marker only by creating it at the
\* origin.
C11_MarkerWrittenOnlyWhenReady ==
    [][ /\ CallbackStep /\ ~ReadyToProject =>
            /\ destinationMarker' = destinationMarker
            /\ proj' = proj
        /\ CallbackStep /\ ReadyToProject =>
            \/ proj'.n = proj.n + 1
            \/ NullSampleStep
            \/ lastCall'.fn = "watchError"
        /\ ~CallbackStep =>
            /\ proj' = proj
            /\ destinationMarker' \in {destinationMarker, Origin}
      ]_vars

\* C11 witness: the initial fix and a valid orientation sample were handled
\* before the marker was created (the sample changed the heading), and the
\* first projection is the one of the watchPosition fix that followed.
C11_Witness ==
    /\ lastCall.fn = "watchPosition"
    /\ nEvents = 3
    /\ nSamples = 1
    /\ compassHeading # 0
    /\ proj.n = 1
    /\ destinationMarker # Origin

=========================================================================
